---- MODULE Spec2Model ----
(***************************************************************************)
(* Extraction state machine of the Jira scraper (extract.py): the          *)
(* checkpoint store (load_checkpoint / save_checkpoint), the page sink     *)
(* (save_raw_issues), the incremental JQL builder and the paginated fetch  *)
(* loop with its retry / backoff policy (fetch_issues_for_project).        *)
(*                                                                         *)
(* Strings that the code compares or splits (timestamps, dates, the legacy *)
(* offset file) are sequences of character codes, so that Python's string  *)
(* comparison, split('T'), strftime, str() and int() are computed rather   *)
(* than assumed.  An Optional value is <<>> (None) or <<x>>.               *)
(***************************************************************************)
EXTENDS Integers, Sequences, FiniteSets, TLC

VARIABLES
    json_file,          \* data/checkpoints/<project>.json
    legacy_file,        \* data/checkpoints/<project>.txt
    raw_pages,          \* data/raw/<project>_<offset>.json, by offset
    pc,                 \* position of fetch_issues_for_project
    cfg,                \* the cfg dict of the current run
    start_at,           \* local start_at
    last_updated,       \* local last_updated (from the checkpoint)
    latest_update_seen, \* local latest_update_seen
    total,              \* local total
    jql,                \* local jql (the filter)
    attempt,            \* local attempt
    log,                \* history: requests of the current page fetch
    error,              \* the exception that left the run, if any
    pre_run,            \* history: the checkpoint files when the run began
    last_good,          \* history: the files after the last ingested page
    pages_ingested,     \* history: pages ingested by the current run
    polite_sleeps,      \* history: polite delays slept by the current run
    data,               \* local data (the body of the last 200 response)
    sink_before,        \* history: the raw pages when the run began
    project_key,        \* the project the files above belong to
    shelf,              \* the files of every project, as last left
    attempted,          \* history: projects fetch_all_projects has taken
    success_count,      \* local success_count of fetch_all_projects
    parked,             \* the locals of a second run that is not on the CPU
    signalled,          \* history: SIGINT / SIGTERM reached this process
    worker              \* the worker's clock, job and status record

vars == <<json_file, legacy_file, raw_pages, pc, cfg, start_at, last_updated,
          latest_update_seen, total, jql, attempt, log, error, pre_run,
          last_good, pages_ingested, polite_sleeps, data, sink_before,
          project_key, shelf, attempted, success_count, parked, signalled,
          worker>>

\* the state of fetch_all_projects
Batch == <<project_key, shelf, attempted, success_count>>

\* the state of the processes the run lives among
Host == <<parked, signalled, worker>>

---------------------------------------------------------------------------
(* Bounds of the model *)

MaxCursor == 2      \* largest offset the remote collection is explored to
MaxRetries == 2     \* largest configured max_retries
MaxClock == 4       \* latest reading of datetime.now() in the worker
Today == 9          \* day number of datetime.now()

(* Defaults of the configuration *)

max_results == 50
polite_delay == 2
rate_limit_sleep == 30
backoff_base == 2
lookback_days == 7
CharT == 84         \* 'T'

Project == project_key

---------------------------------------------------------------------------
(* Values *)

None == <<>>
Some(x) == <<x>>

Digit(n) == 48 + n

IsDigit(c) == c >= 48 /\ c <= 57

Min(a, b) == IF a <= b THEN a ELSE b

RECURSIVE Pow(_, _)
Pow(b, e) == IF e = 0 THEN 1 ELSE b * Pow(b, e - 1)

\* strftime("%Y-%m-%d") of a day: zero-padded, fixed width
FormatDate(d) == <<Digit(d \div 10), Digit(d % 10)>>

\* an ISO timestamp: the date, 'T', the time of day
Stamp(d, h) == FormatDate(d) \o <<CharT, Digit(h)>>

Stamps == {Stamp(1, 0), Stamp(1, 1), Stamp(2, 0)}

\* Python's a < b on str
StrLess(a, b) ==
    \E i \in 1..(Min(Len(a), Len(b)) + 1) :
        /\ \A j \in 1..(i - 1) : a[j] = b[j]
        /\ \/ i <= Len(a) /\ i <= Len(b) /\ a[i] < b[i]
           \/ i = Len(a) + 1 /\ i <= Len(b)

StrGreater(a, b) == StrLess(b, a)

\* s.split('T')[0]
RECURSIVE SplitT0(_)
SplitT0(s) ==
    IF s = <<>> \/ Head(s) = CharT THEN <<>>
    ELSE <<Head(s)>> \o SplitT0(Tail(s))

\* str(n) for n >= 0
RECURSIVE IntToStr(_)
IntToStr(n) ==
    IF n < 10 THEN <<Digit(n)>>
    ELSE IntToStr(n \div 10) \o <<Digit(n % 10)>>

\* int(s) succeeds
IsIntStr(s) == s # <<>> /\ \A i \in 1..Len(s) : IsDigit(s[i])

\* int(s)
RECURSIVE StrToInt(_)
StrToInt(s) ==
    IF s = <<>> THEN 0
    ELSE 10 * StrToInt(SubSeq(s, 1, Len(s) - 1)) + (s[Len(s)] - 48)

---------------------------------------------------------------------------
(* Checkpoint store and page sink *)

Truthy(opt) == opt # None /\ opt[1] # <<>>

Absent == [kind |-> "absent"]

Corrupt == [kind |-> "corrupt"]

Doc(s, u) == [kind |-> "doc", start_at |-> s, last_updated |-> u]

\* the files of a project nothing was ever extracted for
NoFiles == [json |-> Absent, legacy |-> None, raw |-> [o \in 0..MaxCursor |-> None]]

\* changed: a default that counts offsets from one
ZeroCheckpoint_one_based == [start_at |-> 1, last_updated |-> None]

ZeroCheckpoint == [start_at |-> 0, last_updated |-> None]

\* f.read().strip(): white space off both ends
RECURSIVE Strip(_)
Strip(s) ==
    IF s = <<>> THEN s
    ELSE IF Head(s) \in {32, 10} THEN Strip(Tail(s))
    ELSE IF s[Len(s)] \in {32, 10} THEN Strip(SubSeq(s, 1, Len(s) - 1))
    ELSE s

\* changed: only the legacy offset file is read
load_checkpoint_legacy_only(jf, lf) ==
    IF lf # None /\ IsIntStr(Strip(lf[1]))
    THEN [start_at |-> StrToInt(Strip(lf[1])), last_updated |-> None]
    ELSE ZeroCheckpoint

\* changed: a readable legacy offset file is preferred to the JSON record
load_checkpoint_legacy_first(jf, lf) ==
    IF lf # None /\ IsIntStr(Strip(lf[1]))
    THEN [start_at |-> StrToInt(Strip(lf[1])), last_updated |-> None]
    ELSE IF jf.kind = "doc"
    THEN [start_at |-> jf.start_at, last_updated |-> jf.last_updated]
    ELSE ZeroCheckpoint

\* changed: an unreadable JSON record gives the zero-value at once
load_checkpoint_no_fallback(jf, lf) ==
    IF jf.kind = "doc"
    THEN [start_at |-> jf.start_at, last_updated |-> jf.last_updated]
    ELSE IF jf.kind = "absent" /\ lf # None /\ IsIntStr(Strip(lf[1]))
    THEN [start_at |-> StrToInt(Strip(lf[1])), last_updated |-> None]
    ELSE ZeroCheckpoint

load_checkpoint(jf, lf) ==
    IF jf.kind = "doc"
    THEN [start_at |-> jf.start_at, last_updated |-> jf.last_updated]
    ELSE IF lf # None /\ IsIntStr(Strip(lf[1]))
    THEN [start_at |-> StrToInt(Strip(lf[1])), last_updated |-> None]
    ELSE ZeroCheckpoint

\* json.dump of a str: '"' (34) and '\' (92) are escaped with a '\'
RECURSIVE JsonEscape(_)
JsonEscape(t) ==
    IF t = <<>> THEN <<>>
    ELSE (IF Head(t) \in {34, 92} THEN <<92, Head(t)>> ELSE <<Head(t)>>)
             \o JsonEscape(Tail(t))

\* changed: the characters are written as they are
JsonString_unescaped(u) ==
    IF u = None THEN <<110, 117, 108, 108>> ELSE <<34>> \o u[1] \o <<34>>

\* json.dump of an Optional[str]: null, or the escaped text in quotes
JsonString(u) ==
    IF u = None THEN <<110, 117, 108, 108>>
    ELSE <<34>> \o JsonEscape(u[1]) \o <<34>>

\* json.load of the inside of a quoted text
RECURSIVE JsonUnescape(_)
JsonUnescape(t) ==
    IF t = <<>> THEN <<>>
    ELSE IF Head(t) = 92 /\ Len(t) >= 2
    THEN <<t[2]>> \o JsonUnescape(SubSeq(t, 3, Len(t)))
    ELSE IF Head(t) = 34 THEN <<>>
    ELSE <<Head(t)>> \o JsonUnescape(Tail(t))

\* json.load of null or of a quoted text
JsonValue(t) ==
    IF t = <<110, 117, 108, 108>> THEN None
    ELSE Some(JsonUnescape(Tail(t)))

\* the text json.dump writes for {"start_at": s, "last_updated": u}: the
\* two values in that order, a comma (44) between them
json_dump(s, u) == IntToStr(s) \o <<44>> \o JsonString(u)

\* the document json.load reads from that text
json_load(text) ==
    LET k == CHOOSE i \in 1..Len(text) :
                 text[i] = 44 /\ \A j \in 1..(i - 1) : text[j] # 44
    IN  Doc(StrToInt(SubSeq(text, 1, k - 1)),
            JsonValue(SubSeq(text, k + 1, Len(text))))

\* changed: the legacy offset file is left as it was
save_checkpoint_json_only(jf, lf, s, u) ==
    LET kept == IF u = None THEN load_checkpoint(jf, lf).last_updated ELSE u
    IN  [json |-> json_load(json_dump(s, kept)), legacy |-> lf]

\* changed: the argument is written as given, None included
save_checkpoint_overwrites(jf, lf, s, u) ==
    [json |-> Doc(s, u), legacy |-> Some(IntToStr(s))]

\* changed: the offset of the last record is written, not the next offset
save_checkpoint_last_record(jf, lf, s, u) ==
    LET kept == IF u = None THEN load_checkpoint(jf, lf).last_updated ELSE u
    IN  [json |-> Doc(s - 1, kept), legacy |-> Some(IntToStr(s - 1))]

\* the two files after save_checkpoint(project, s, u)
save_checkpoint(jf, lf, s, u) ==
    LET kept == IF u = None THEN load_checkpoint(jf, lf).last_updated ELSE u
    IN  [json |-> json_load(json_dump(s, kept)), legacy |-> Some(IntToStr(s))]

\* the places inside save_checkpoint where the process can die
SavePoints == {"json_open", "json_done", "legacy_open"}

\* the files left by a save_checkpoint that died at the given place:
\* open(path, "w") truncates the file before anything is written to it
save_checkpoint_until(jf, lf, s, u, point) ==
    [json |-> IF point = "json_open" THEN Corrupt
              ELSE save_checkpoint(jf, lf, s, u).json,
     legacy |-> IF point = "legacy_open" THEN Some(<<>>) ELSE lf]

\* a page file that was opened for writing and not written to its end
TornPage == Some(<<[torn |-> TRUE]>>)

\* the pages left by a save_raw_issues that died after open(path, "w"),
\* which truncates the file, and before json.dump had written all of it
save_raw_issues_until(raw, s, issues) == [raw EXCEPT ![s] = TornPage]

\* changed: the page is handed to the sink after the checkpoint was saved
save_raw_issues_deferred(raw, s, issues) == raw

\* changed: a page stored again is appended to the page already there
save_raw_issues_appends(raw, s, issues) ==
    [raw EXCEPT ![s] = IF raw[s] = None THEN Some(issues)
                       ELSE Some(raw[s][1] \o issues)]

save_raw_issues(raw, s, issues) == [raw EXCEPT ![s] = Some(issues)]

---------------------------------------------------------------------------
(* Incremental query builder *)

\* changed: the watermark is ignored, the lookback window always applies
BuildJql_always_lookback(incremental, lookback, lu, today) ==
    IF incremental
    THEN [project |-> Project, since |-> Some(FormatDate(today - lookback))]
    ELSE [project |-> Project, since |-> None]

BuildJql(incremental, lookback, lu, today) ==
    IF incremental /\ Truthy(lu)
    THEN [project |-> Project, since |-> Some(SplitT0(lu[1]))]
    ELSE IF incremental
    THEN [project |-> Project, since |-> Some(FormatDate(today - lookback))]
    ELSE [project |-> Project, since |-> None]

---------------------------------------------------------------------------
(* Retry / backoff policy *)

Statuses == {200, 204, 404, 429, 500}

\* changed: the rate limit sleep grows with the attempt
RateLimitWait_exponential(k) == cfg.rate_limit_sleep * Pow(cfg.retry_backoff_base, k)

\* the sleep after a 429 received at attempt k
RateLimitWait(k) == cfg.rate_limit_sleep

\* changed: * for **
BackoffWait_linear(k) == cfg.retry_backoff_base * k

\* wait = backoff_base ** attempt
BackoffWait(k) == Pow(cfg.retry_backoff_base, k)

\* the branch of the if / elif chain on resp.status_code
Classify(status) ==
    IF status = 200 THEN "success"
    ELSE IF status = 429 THEN "rate_limit"
    ELSE IF 500 <= status /\ status < 600 THEN "server_error"
    ELSE "unexpected"

\* resp.raise_for_status() raises HTTPError, a RequestException
RaisesForStatus(status) == 400 <= status /\ status < 600

\* the except RequestException branch re-raises
\* changed: > for >=
BudgetSpent_late(k, max_retries) == k > max_retries

BudgetSpent(k, max_retries) == k >= max_retries

\* changed: >= for >
Exhausted_off_by_one(k, max_retries) == k >= max_retries

\* the check after every retry branch
Exhausted(k, max_retries) == k > max_retries

RetriesExhausted(s) ==
    [type |-> "RuntimeError", project |-> Some(Project), startAt |-> Some(s)]

\* changed: the underlying exception is wrapped in a RuntimeError
Escaped_wrapped(type) ==
    [type |-> "RuntimeError", project |-> None, startAt |-> None]

Escaped(type) == [type |-> type, project |-> None, startAt |-> None]

---------------------------------------------------------------------------
(* Page ingestion *)

Issue(u) == [updated |-> u]

Issues == {Issue(u) : u \in {None} \cup {Some(t) : t \in Stamps}}

RECURSIVE SeqsUpTo(_, _)
SeqsUpTo(S, n) ==
    IF n = 0 THEN {<<>>}
    ELSE LET shorter == SeqsUpTo(S, n - 1)
         IN  shorter \cup {Append(q, x) : q \in shorter, x \in S}

OptTotals == {None} \cup {Some(n) : n \in 0..MaxCursor}

\* changed: the 'updated' of the last record of the page wins
MaxUpdated_last(latest, issues) ==
    IF issues # <<>> /\ Truthy(issues[Len(issues)].updated)
    THEN issues[Len(issues)].updated
    ELSE latest

\* the loop over the page that tracks the latest 'updated'
RECURSIVE MaxUpdated(_, _)
MaxUpdated(latest, issues) ==
    IF issues = <<>> THEN latest
    ELSE LET updated == Head(issues).updated
             next == IF Truthy(updated)
                        /\ (~Truthy(latest) \/ StrGreater(updated[1], latest[1]))
                     THEN updated ELSE latest
         IN  MaxUpdated(next, Tail(issues))

\* changed: > for >=
ReachedTotal_strict(t, s) == t # None /\ s > t[1]

\* total is not None and start_at >= total
\* changed: the run stops one record short of the total
ReachedTotal_early(t, s) == t # None /\ s + 1 >= t[1]

ReachedTotal(t, s) == t # None /\ s >= t[1]

---------------------------------------------------------------------------
(* Inputs explored: configurations, statuses, pages, totals, initial      *)
(* checkpoint files, and a cap on the requests of one page fetch          *)

\* the cfg dict, as fetch_issues_for_project reads it with its defaults
Config(incremental, retries, base) ==
    [incremental |-> incremental, max_retries |-> retries,
     retry_backoff_base |-> base, rate_limit_sleep |-> rate_limit_sleep,
     polite_delay |-> polite_delay, lookback_days |-> lookback_days,
     max_results |-> max_results, projects |-> <<"HADOOP">>]

Configs ==
    {Config(i, m, b) : i \in BOOLEAN, m \in 0..MaxRetries, b \in {backoff_base, 3}}

\* the runs of the checkpoint store: every page, few retries
StoreInputs ==
    [configs |-> {Config(i, m, backoff_base) : i \in BOOLEAN, m \in {0, 1}},
     statuses |-> {404, 429, 500},
     pages |-> SeqsUpTo(Issues, MaxCursor),
     totals |-> OptTotals,
     json |-> {Absent, Corrupt},
     legacy |-> {None, Some(<<>>), Some(IntToStr(1))},
     projects |-> <<"HADOOP">>,
     parked |-> {None},
     cap |-> 2]

\* the runs of the retry policy: every status and retry budget, few pages
PolicyInputs ==
    [configs |-> Configs,
     statuses |-> Statuses,
     pages |-> {<<Issue(Some(Stamp(1, 1)))>>},
     totals |-> {None, Some(MaxCursor)},
     json |-> {Absent},
     legacy |-> {None},
     projects |-> <<"HADOOP">>,
     parked |-> {None},
     cap |-> MaxRetries + 1]

\* the example configuration of fetch_all_projects
ProjectList == <<"HADOOP", "SPARK", "KAFKA">>

\* the runs of fetch_all_projects: one page per project, no retry
AllInputs ==
    [configs |-> {[Config(FALSE, 0, backoff_base) EXCEPT !.projects = ProjectList]},
     statuses |-> {404, 500},
     pages |-> {<<Issue(Some(Stamp(1, 1)))>>},
     totals |-> {None, Some(1)},
     json |-> {Absent},
     legacy |-> {None},
     projects |-> ProjectList,
     parked |-> {None},
     cap |-> 1]

\* the locals of a process that has not called fetch_issues_for_project yet
IdleRun(p, c) ==
    [pc |-> "idle", cfg |-> c, start_at |-> 0, last_updated |-> None,
     latest_update_seen |-> None, total |-> None,
     jql |-> [project |-> p, since |-> None], attempt |-> 0, log |-> <<>>,
     error |-> None, pre_run |-> [json |-> Absent, legacy |-> None],
     last_good |-> NoFiles, pages_ingested |-> 0, polite_sleeps |-> 0,
     data |-> None, sink_before |-> NoFiles.raw, project_key |-> p]

\* two processes that run side by side, for two projects or for the same one
PairInputs ==
    [configs |-> {Config(FALSE, 0, backoff_base)},
     statuses |-> {500},
     pages |-> {<<Issue(Some(Stamp(1, 1)))>>},
     totals |-> {None, Some(MaxCursor)},
     json |-> {Absent},
     legacy |-> {None},
     projects |-> <<"HADOOP", "SPARK">>,
     parked |-> {Some(IdleRun(p, Config(FALSE, 0, backoff_base))) :
                    p \in {"HADOOP", "SPARK"}},
     cap |-> 1]

\* the runs that are signalled or killed while writing a page
KillInputs ==
    [configs |-> {Config(FALSE, 1, backoff_base)},
     statuses |-> {429, 500},
     pages |-> {<<Issue(Some(Stamp(1, 1)))>>, <<Issue(Some(Stamp(2, 0)))>>},
     totals |-> {None, Some(MaxCursor)},
     json |-> {Absent},
     legacy |-> {None},
     projects |-> <<"HADOOP">>,
     parked |-> {None},
     cap |-> 2]

\* the runs that are killed or cleaned: a fresh store, one failing status
CrashInputs ==
    [configs |-> {Config(TRUE, 0, backoff_base)},
     statuses |-> {500},
     pages |-> SeqsUpTo({Issue(Some(Stamp(1, 1))), Issue(Some(Stamp(2, 0)))}, 2),
     totals |-> {None, Some(MaxCursor)},
     json |-> {Absent},
     legacy |-> {None},
     projects |-> <<"HADOOP">>,
     parked |-> {None},
     cap |-> 1]

---------------------------------------------------------------------------
(* worker.py: the status record *)

\* lines 40-65: update_status(success, message) at the time w.clock
update_status(w, success) ==
    [w EXCEPT !.last_successful_run = IF success THEN Some(w.clock) ELSE @,
              !.status = IF success THEN "healthy" ELSE "error"]

\* datetime.now() read later than the last time
Later(w) == [w EXCEPT !.clock = @ + 1]

\* run_worker up to line 164: worker_start_time is taken and
\* update_status(True, "Worker started") called; no job has run.  finished
\* and succeeded_at are history: how the last job ended, and when the last
\* job that completed successfully did
WorkerStarted ==
    update_status([clock |-> 0, job |-> "none", last_successful_run |-> None,
                   status |-> "unknown", finished |-> "none",
                   succeeded_at |-> None], TRUE)

---------------------------------------------------------------------------
(* fetch_issues_for_project *)

\* changed: the filter is rebuilt from the persisted watermark per request
Params_requeries ==
    [jql |-> BuildJql(cfg.incremental, cfg.lookback_days,
                      load_checkpoint(json_file, legacy_file).last_updated,
                      Today),
     maxResults |-> cfg.max_results, startAt |-> start_at, fields |-> "*all"]

\* changed: the next page is requested while the current one is ingested
Params_ahead ==
    [jql |-> jql, maxResults |-> cfg.max_results,
     startAt |-> start_at + cfg.max_results, fields |-> "*all"]

Params ==
    [jql |-> jql, maxResults |-> cfg.max_results, startAt |-> start_at,
     fields |-> "*all"]

\* one request of the current page fetch and what followed it
Entry(kind, status, slept, count) ==
    [kind |-> kind, status |-> status, attempt |-> attempt, slept |-> slept,
     params |-> Params, count |-> count]

Files == [json |-> json_file, legacy |-> legacy_file]

Stored == [json |-> json_file, legacy |-> legacy_file, raw |-> raw_pages]

InitOver(K) ==
    /\ project_key = K.projects[1]
    /\ json_file \in K.json
    /\ legacy_file \in K.legacy
    /\ raw_pages = [o \in 0..MaxCursor |-> None]
    /\ pc = "idle"
    /\ cfg \in K.configs
    /\ start_at = 0
    /\ last_updated = None
    /\ latest_update_seen = None
    /\ total = None
    /\ jql = BuildJql(FALSE, lookback_days, None, Today)
    /\ attempt = 0
    /\ log = <<>>
    /\ error = None
    /\ pre_run = [json |-> json_file, legacy |-> legacy_file]
    /\ last_good = [json |-> json_file, legacy |-> legacy_file, raw |-> raw_pages]
    /\ pages_ingested = 0
    /\ polite_sleeps = 0
    /\ data = None
    /\ sink_before = raw_pages
    /\ shelf = [p \in {K.projects[i] : i \in 1..Len(K.projects)} |-> NoFiles]
    /\ attempted = <<>>
    /\ success_count = 0
    /\ parked \in K.parked
    /\ signalled = FALSE
    /\ worker = WorkerStarted

\* changed: the counter goes on from where the last page fetch left it
NewPageFetch_keeps_attempt ==
    /\ log' = <<>>
    /\ attempt' = attempt

\* lines 200-208: each pass of the outer loop builds params, sets
\* attempt = 0 and enters the inner loop
NewPageFetch ==
    /\ log' = <<>>
    /\ attempt' = 0

\* changed: a run whose filter is built from a watermark counts from 0
StartRun_recounts(c) ==
    /\ pc \in {"idle", "done", "aborted", "crashed", "calling", "exited"}
    /\ LET checkpoint == load_checkpoint(json_file, legacy_file)
       IN  /\ start_at' = IF c.incremental /\ Truthy(checkpoint.last_updated)
                        THEN 0 ELSE checkpoint.start_at
           /\ last_updated' = checkpoint.last_updated
           /\ jql' = BuildJql(c.incremental, c.lookback_days,
                           checkpoint.last_updated, Today)
    /\ cfg' = c
    /\ latest_update_seen' = None
    /\ total' = None
    /\ NewPageFetch
    /\ error' = None
    /\ pre_run' = Files
    /\ last_good' = Stored
    /\ pages_ingested' = 0
    /\ polite_sleeps' = 0
    /\ data' = None
    /\ sink_before' = raw_pages
    /\ pc' = "requesting"
    /\ UNCHANGED <<json_file, legacy_file, raw_pages>>
    /\ UNCHANGED Batch
    /\ signalled' = FALSE
    /\ UNCHANGED <<parked, worker>>

\* lines 150-198 and the first pass through lines 201-208
StartRun(c) ==
    /\ pc \in {"idle", "done", "aborted", "crashed", "calling", "exited"}
    /\ LET checkpoint == load_checkpoint(json_file, legacy_file)
       IN  /\ start_at' = checkpoint.start_at
           /\ last_updated' = checkpoint.last_updated
           /\ jql' = BuildJql(c.incremental, c.lookback_days,
                           checkpoint.last_updated, Today)
    /\ cfg' = c
    /\ latest_update_seen' = None
    /\ total' = None
    /\ NewPageFetch
    /\ error' = None
    /\ pre_run' = Files
    /\ last_good' = Stored
    /\ pages_ingested' = 0
    /\ polite_sleeps' = 0
    /\ data' = None
    /\ sink_before' = raw_pages
    /\ pc' = "requesting"
    /\ UNCHANGED <<json_file, legacy_file, raw_pages>>
    /\ UNCHANGED Batch
    /\ signalled' = FALSE
    /\ UNCHANGED <<parked, worker>>

\* lines 269-273, after a branch that left the attempt counter at k
CheckRetries(k) ==
    IF Exhausted(k, cfg.max_retries)
    THEN /\ pc' = "aborted"
         /\ error' = Some(RetriesExhausted(start_at))
    ELSE /\ pc' = "requesting"
         /\ error' = error

\* changed: a 429 is slept on but does not count against the budget
SleepAndRetry_rate_limit_uncounted(kind, status, wait) ==
    /\ log' = Append(log, Entry(kind, status, Some(wait), 0))
    /\ attempt' = IF status = 429 THEN attempt ELSE attempt + 1
    /\ CheckRetries(IF status = 429 THEN attempt ELSE attempt + 1)

\* a retry branch: sleep, attempt += 1, then the check of lines 269-273
SleepAndRetry(kind, status, wait) ==
    /\ log' = Append(log, Entry(kind, status, Some(wait), 0))
    /\ attempt' = attempt + 1
    /\ CheckRetries(attempt + 1)

\* lines 258-267: except requests.exceptions.RequestException
OnRequestException(kind, status, type) ==
    IF BudgetSpent(attempt, cfg.max_retries)
    THEN /\ log' = Append(log, Entry(kind, status, None, 0))
         /\ attempt' = attempt
         /\ pc' = "aborted"
         /\ error' = Some(Escaped(type))
    ELSE SleepAndRetry(kind, status, BackoffWait(attempt))

\* lines 245-249: the else branch of the status chain
OnUnexpectedStatus(status) ==
    IF RaisesForStatus(status)
    THEN OnRequestException("http", status, "HTTPError")
    ELSE /\ log' = Append(log, Entry("http", status, None, 0))
         /\ attempt' = attempt
         /\ CheckRetries(attempt)

\* changed: a failed request rewinds the checkpoint
NoIngestion_rewinds ==
    /\ json_file' = save_checkpoint(json_file, legacy_file, 0, None).json
    /\ legacy_file' = save_checkpoint(json_file, legacy_file, 0, None).legacy
    /\ UNCHANGED <<raw_pages, cfg, start_at, last_updated, latest_update_seen,
                   total, jql, pre_run, last_good, pages_ingested, polite_sleeps,
                   data, sink_before>>
    /\ UNCHANGED Batch
    /\ UNCHANGED Host

\* the branches of lines 232-273 write no file and leave the run's locals
NoIngestion ==
    UNCHANGED <<json_file, legacy_file, raw_pages, cfg, start_at, last_updated,
                latest_update_seen, total, jql, pre_run, last_good,
                pages_ingested, polite_sleeps, data, sink_before, project_key,
                shelf, attempted, success_count, parked, signalled, worker>>

\* a response with a status other than 200 (lines 215-249, 269-273)
RespStatus(status, cap) ==
    /\ pc = "requesting"
    /\ Len(log) < cap
    /\ Classify(status) # "success"
    /\ IF Classify(status) = "rate_limit"
       THEN SleepAndRetry("http", status, RateLimitWait(attempt))
       ELSE IF Classify(status) = "server_error"
       THEN SleepAndRetry("http", status, BackoffWait(attempt))
       ELSE OnUnexpectedStatus(status)
    /\ NoIngestion

\* requests.get raises Timeout (lines 251-256, 269-273)
Timeout(cap) ==
    /\ pc = "requesting"
    /\ Len(log) < cap
    /\ SleepAndRetry("timeout", 0, BackoffWait(attempt))
    /\ NoIngestion

\* requests.get raises another RequestException (lines 258-273)
TransportError(cap) ==
    /\ pc = "requesting"
    /\ Len(log) < cap
    /\ OnRequestException("exception", 0, "ConnectionError")
    /\ NoIngestion

\* changed: the checkpoint is saved and the polite delay slept before the
\* check for an empty page
EmptyPage_after_save(tot, cap) ==
    /\ pc = "requesting"
    /\ Len(log) < cap
    /\ total' = IF tot = None THEN total ELSE tot
    /\ log' = Append(log, Entry("http", 200, Some(cfg.polite_delay), 0))
    /\ pc' = "done"
    /\ data' = Some([issues |-> <<>>, total |-> tot])
    /\ json_file' = save_checkpoint(json_file, legacy_file, start_at,
                                    latest_update_seen).json
    /\ legacy_file' = save_checkpoint(json_file, legacy_file, start_at,
                                      latest_update_seen).legacy
    /\ polite_sleeps' = polite_sleeps + 1
    /\ UNCHANGED <<raw_pages, cfg, start_at, last_updated,
                   latest_update_seen, jql, attempt, error, pre_run, last_good,
                   pages_ingested, sink_before>>
    /\ UNCHANGED Batch
    /\ UNCHANGED Host

\* a 200 response with no issues (lines 224-230, 275-280)
EmptyPage(tot, cap) ==
    /\ pc = "requesting"
    /\ Len(log) < cap
    /\ total' = IF tot = None THEN total ELSE tot
    /\ log' = Append(log, Entry("http", 200, None, 0))
    /\ pc' = "done"
    /\ data' = Some([issues |-> <<>>, total |-> tot])
    /\ UNCHANGED <<json_file, legacy_file, raw_pages, cfg, start_at, last_updated,
                   latest_update_seen, jql, attempt, error, pre_run, last_good,
                   pages_ingested, polite_sleeps, sink_before>>
    /\ UNCHANGED Batch
    /\ UNCHANGED Host

\* changed: a page that needed retries has slept enough already
SleepsPolitely_unless_retried(k) == k = 0

\* line 366: time.sleep(polite_delay) stands under no condition, whatever
\* the attempt counter k of the page fetch
SleepsPolitely(k) == TRUE

\* a 200 response with issues, ingested (lines 224-230, 275-370)
Ingest(issues, tot, cap) ==
    /\ pc = "requesting"
    /\ Len(log) < cap
    /\ issues # <<>>
    /\ start_at + Len(issues) <= MaxCursor
    /\ LET seen == MaxUpdated(latest_update_seen, issues)
           cursor == start_at + Len(issues)
           saved == save_checkpoint(json_file, legacy_file, cursor, seen)
           known == IF tot = None THEN total ELSE tot
       IN  /\ latest_update_seen' = seen
           /\ raw_pages' = save_raw_issues(raw_pages, start_at, issues)
           /\ start_at' = cursor
           /\ json_file' = saved.json
           /\ legacy_file' = saved.legacy
           /\ last_good' = [json |-> saved.json, legacy |-> saved.legacy,
                             raw |-> save_raw_issues(raw_pages, start_at, issues)]
           /\ total' = known
           /\ polite_sleeps' = IF SleepsPolitely(attempt)
                               THEN polite_sleeps + 1 ELSE polite_sleeps
           /\ pages_ingested' = pages_ingested + 1
           /\ IF ReachedTotal(known, cursor)
              THEN /\ pc' = "done"
                   /\ log' = Append(log, Entry("http", 200,
                                             IF SleepsPolitely(attempt)
                                             THEN Some(cfg.polite_delay)
                                             ELSE None,
                                             Len(issues)))
                   /\ attempt' = attempt
              ELSE /\ pc' = "requesting"
                   /\ NewPageFetch
    /\ data' = Some([issues |-> issues, total |-> tot])
    /\ UNCHANGED <<cfg, last_updated, jql, error, pre_run, sink_before>>
    /\ UNCHANGED Batch
    /\ UNCHANGED Host

\* the process is killed while ingesting a page (lines 353-355): after
\* save_raw_issues returned, or at a place inside save_checkpoint
Crash(issues, tot, point, cap) ==
    /\ pc = "requesting"
    /\ Len(log) < cap
    /\ issues # <<>>
    /\ start_at + Len(issues) <= MaxCursor
    /\ LET seen == MaxUpdated(latest_update_seen, issues)
           cursor == start_at + Len(issues)
           left == IF point = "raw_done" THEN Files
                   ELSE save_checkpoint_until(json_file, legacy_file, cursor,
                                              seen, point)
       IN  /\ latest_update_seen' = seen
           /\ raw_pages' = save_raw_issues(raw_pages, start_at, issues)
           /\ start_at' = cursor
           /\ json_file' = left.json
           /\ legacy_file' = left.legacy
    /\ total' = IF tot = None THEN total ELSE tot
    /\ data' = Some([issues |-> issues, total |-> tot])
    /\ log' = Append(log, Entry("http", 200, None, Len(issues)))
    /\ pc' = "crashed"
    /\ UNCHANGED <<cfg, last_updated, jql, attempt, error, pre_run, last_good,
                   pages_ingested, polite_sleeps, sink_before>>
    /\ UNCHANGED Batch
    /\ UNCHANGED Host

\* the process is killed inside save_raw_issues (lines 47-50), after the
\* loop of lines 347-351
CrashInSink(issues, tot, cap) ==
    /\ pc = "requesting"
    /\ Len(log) < cap
    /\ issues # <<>>
    /\ start_at + Len(issues) <= MaxCursor
    /\ latest_update_seen' = MaxUpdated(latest_update_seen, issues)
    /\ raw_pages' = save_raw_issues_until(raw_pages, start_at, issues)
    /\ total' = IF tot = None THEN total ELSE tot
    /\ data' = Some([issues |-> issues, total |-> tot])
    /\ log' = Append(log, Entry("http", 200, None, Len(issues)))
    /\ pc' = "crashed"
    /\ UNCHANGED <<json_file, legacy_file, cfg, start_at, last_updated, jql,
                   attempt, error, pre_run, last_good, pages_ingested,
                   polite_sleeps, sink_before>>
    /\ UNCHANGED Batch
    /\ UNCHANGED Host

\* changed: only the .json checkpoint file is deleted
clean_data_json_only ==
    /\ pc \in {"idle", "done", "aborted", "crashed"}
    /\ json_file' = Absent
    /\ legacy_file' = legacy_file
    /\ pc' = "idle"
    /\ UNCHANGED <<raw_pages, cfg, start_at, last_updated,
                   latest_update_seen, total, jql, attempt, log, error, pre_run,
                   last_good, pages_ingested, polite_sleeps, data, sink_before>>
    /\ UNCHANGED Batch
    /\ UNCHANGED Host

\* main.py --clean between two runs: the checkpoint files are removed
clean_data ==
    /\ pc \in {"idle", "done", "aborted", "crashed"}
    /\ json_file' = Absent
    /\ legacy_file' = None
    /\ pc' = "idle"
    /\ UNCHANGED <<raw_pages, cfg, start_at, last_updated,
                   latest_update_seen, total, jql, attempt, log, error, pre_run,
                   last_good, pages_ingested, polite_sleeps, data, sink_before>>
    /\ UNCHANGED Batch
    /\ UNCHANGED Host

\* changed: except RuntimeError for except Exception
IsException_runtime_only(type) == type = "RuntimeError"

\* line 399: the errors that except Exception catches
IsException(type) == type \in {"RuntimeError", "HTTPError", "ConnectionError"}

\* changed: success_count += 1 stands after the try statement
LoopStep_counts_calls ==
    /\ pc \in {"idle", "done", "aborted"}
    /\ shelf' = [shelf EXCEPT ![project_key] = Stored]
    /\ IF pc = "aborted" /\ ~IsException(error[1].type)
       THEN /\ pc' = "raised"
            /\ UNCHANGED <<json_file, legacy_file, raw_pages, project_key,
                           attempted, success_count>>
       ELSE /\ success_count' = IF pc \in {"done", "aborted"}
                                THEN success_count + 1 ELSE success_count
            /\ IF Len(attempted) < Len(cfg.projects)
               THEN LET p == cfg.projects[Len(attempted) + 1]
                    IN  /\ project_key' = p
                        /\ json_file' = shelf'[p].json
                        /\ legacy_file' = shelf'[p].legacy
                        /\ raw_pages' = shelf'[p].raw
                        /\ attempted' = Append(attempted, p)
                        /\ pc' = "calling"
               ELSE /\ pc' = "returned"
                    /\ UNCHANGED <<json_file, legacy_file, raw_pages,
                                   project_key, attempted>>
    /\ UNCHANGED <<cfg, start_at, last_updated, latest_update_seen, total, jql,
                   attempt, log, error, pre_run, last_good, pages_ingested,
                   polite_sleeps, data, sink_before>>
    /\ UNCHANGED Host

\* fetch_all_projects between two calls (lines 387-403): the outcome of the
\* call that ended is counted or caught, then the loop takes the next
\* project or returns.  The files in view become those of the project taken.
LoopStep ==
    /\ pc \in {"idle", "done", "aborted"}
    /\ shelf' = [shelf EXCEPT ![project_key] = Stored]
    /\ IF pc = "aborted" /\ ~IsException(error[1].type)
       THEN /\ pc' = "raised"
            /\ UNCHANGED <<json_file, legacy_file, raw_pages, project_key,
                           attempted, success_count>>
       ELSE /\ success_count' = IF pc = "done" THEN success_count + 1
                                ELSE success_count
            /\ IF Len(attempted) < Len(cfg.projects)
               THEN LET p == cfg.projects[Len(attempted) + 1]
                    IN  /\ project_key' = p
                        /\ json_file' = shelf'[p].json
                        /\ legacy_file' = shelf'[p].legacy
                        /\ raw_pages' = shelf'[p].raw
                        /\ attempted' = Append(attempted, p)
                        /\ pc' = "calling"
               ELSE /\ pc' = "returned"
                    /\ UNCHANGED <<json_file, legacy_file, raw_pages,
                                   project_key, attempted>>
    /\ UNCHANGED <<cfg, start_at, last_updated, latest_update_seen, total, jql,
                   attempt, log, error, pre_run, last_good, pages_ingested,
                   polite_sleeps, data, sink_before>>
    /\ UNCHANGED Host

\* line 394: fetch_issues_for_project(p, cfg)
CallFetch == pc = "calling" /\ StartRun(cfg)

\* changed: the handler logs the signal and returns
signal_handler_returns(position) == position

\* worker.py lines 122-125: sys.exit(0) raises SystemExit where the main
\* thread stands; no except clause of the extraction catches it
signal_handler(position) == "exited"

\* SIGINT or SIGTERM reaches the worker while a run is between two
\* requests: in requests.get or in one of the sleeps, which it interrupts
Shutdown ==
    /\ pc = "requesting"
    /\ ~signalled
    /\ signalled' = TRUE
    /\ worker' = update_status(worker, TRUE)
    /\ pc' = signal_handler(pc)
    /\ UNCHANGED <<json_file, legacy_file, raw_pages, cfg, start_at,
                   last_updated, latest_update_seen, total, jql, attempt, log,
                   error, pre_run, last_good, pages_ingested, polite_sleeps,
                   data, sink_before, parked>>
    /\ UNCHANGED Batch

\* changed: one file name for all projects
Partition_shared(project) == "HADOOP"

\* lines 46, 69, 78, 112 and 118: every path carries the project key
Partition(project) == project

\* the locals of the run on the CPU
Locals ==
    [pc |-> pc, cfg |-> cfg, start_at |-> start_at,
     last_updated |-> last_updated,
     latest_update_seen |-> latest_update_seen, total |-> total, jql |-> jql,
     attempt |-> attempt, log |-> log, error |-> error, pre_run |-> pre_run,
     last_good |-> last_good, pages_ingested |-> pages_ingested,
     polite_sleeps |-> polite_sleeps, data |-> data,
     sink_before |-> sink_before, project_key |-> project_key]

\* the scheduler takes the CPU from one process and gives it to the other:
\* what comes into view are the other run's locals and the files its
\* project key names
Switch ==
    /\ parked # None
    /\ LET run == parked[1]
           shelved == [shelf EXCEPT ![Partition(project_key)] = Stored]
           files == shelved[Partition(run.project_key)]
       IN  /\ parked' = Some(Locals)
           /\ shelf' = shelved
           /\ json_file' = files.json
           /\ legacy_file' = files.legacy
           /\ raw_pages' = files.raw
           /\ pc' = run.pc
           /\ cfg' = run.cfg
           /\ start_at' = run.start_at
           /\ last_updated' = run.last_updated
           /\ latest_update_seen' = run.latest_update_seen
           /\ total' = run.total
           /\ jql' = run.jql
           /\ attempt' = run.attempt
           /\ log' = run.log
           /\ error' = run.error
           /\ pre_run' = run.pre_run
           /\ last_good' = run.last_good
           /\ pages_ingested' = run.pages_ingested
           /\ polite_sleeps' = run.polite_sleeps
           /\ data' = run.data
           /\ sink_before' = run.sink_before
           /\ project_key' = run.project_key
    /\ UNCHANGED <<attempted, success_count, signalled, worker>>

NextOver(K) ==
    \/ \E c \in K.configs : StartRun(c)
    \/ \E status \in K.statuses : RespStatus(status, K.cap)
    \/ Timeout(K.cap)
    \/ TransportError(K.cap)
    \/ \E tot \in K.totals : EmptyPage(tot, K.cap)
    \/ \E issues \in K.pages, tot \in K.totals : Ingest(issues, tot, K.cap)

Init == InitOver(StoreInputs)

Next == NextOver(StoreInputs)

Spec == Init /\ [][Next]_vars

PolicyInit == InitOver(PolicyInputs)

PolicyNext == NextOver(PolicyInputs)

SpecPolicy == PolicyInit /\ [][PolicyNext]_vars

CrashInit == InitOver(CrashInputs)

CrashNext ==
    \/ NextOver(CrashInputs)
    \/ \E issues \in CrashInputs.pages, tot \in CrashInputs.totals,
          point \in SavePoints \cup {"raw_done"} :
            Crash(issues, tot, point, CrashInputs.cap)
    \/ clean_data

SpecCrash == CrashInit /\ [][CrashNext]_vars

PairInit == InitOver(PairInputs)

PairNext ==
    \/ NextOver(PairInputs)
    \/ Switch

SpecPair == PairInit /\ [][PairNext]_vars

KillInit == InitOver(KillInputs)

KillNext ==
    \/ NextOver(KillInputs)
    \/ Shutdown
    \/ \E issues \in KillInputs.pages, tot \in KillInputs.totals :
            CrashInSink(issues, tot, KillInputs.cap)

SpecKill == KillInit /\ [][KillNext]_vars

\* a remote collection that does not change: MaxCursor records, the i-th
\* updated on day i
Remote == [i \in 1..MaxCursor |-> Issue(Some(Stamp(i, 0)))]

\* the pages the remote can answer a request for offset c with (line 225,
\* resp.json()): the records from c on, as many as the server gives of them
RemotePages(c) ==
    {SubSeq(Remote, c + 1, c + n) : n \in 1..(Len(Remote) - c)}

\* the runs against the fixed remote: full extraction, failures that abort
FixedInputs ==
    [configs |-> {Config(FALSE, m, backoff_base) : m \in {0, 1}},
     statuses |-> {404, 429, 500},
     pages |-> UNION {RemotePages(c) : c \in 0..(Len(Remote) - 1)},
     totals |-> {None, Some(Len(Remote))},
     json |-> {Absent},
     legacy |-> {None},
     projects |-> <<"HADOOP">>,
     parked |-> {None},
     cap |-> 2]

FixedInit == InitOver(FixedInputs)

\* the requests of fetch_issues_for_project answered by the fixed remote:
\* a 200 carries the records at the requested offset, none beyond the end
FixedNext ==
    \/ \E c \in FixedInputs.configs : StartRun(c)
    \/ \E status \in FixedInputs.statuses : RespStatus(status, FixedInputs.cap)
    \/ Timeout(FixedInputs.cap)
    \/ TransportError(FixedInputs.cap)
    \/ \E tot \in FixedInputs.totals :
          /\ start_at >= Len(Remote)
          /\ EmptyPage(tot, FixedInputs.cap)
    \/ \E tot \in FixedInputs.totals :
          /\ start_at < Len(Remote)
          /\ \E issues \in RemotePages(start_at) :
                Ingest(issues, tot, FixedInputs.cap)

SpecFixed == FixedInit /\ [][FixedNext]_vars

AllInit == InitOver(AllInputs)

AllNext ==
    \/ LoopStep
    \/ CallFetch
    \/ \E status \in AllInputs.statuses : RespStatus(status, AllInputs.cap)
    \/ Timeout(AllInputs.cap)
    \/ TransportError(AllInputs.cap)
    \/ \E tot \in AllInputs.totals : EmptyPage(tot, AllInputs.cap)
    \/ \E issues \in AllInputs.pages, tot \in AllInputs.totals :
            Ingest(issues, tot, AllInputs.cap)

SpecAll == AllInit /\ [][AllNext]_vars

\* worker.py lines 76-78: job() begins with update_status(True, "Job started")
JobStart ==
    /\ pc = "idle"
    /\ worker.job = "none"
    /\ worker.clock < MaxClock
    /\ worker' = [update_status(Later(worker), TRUE) EXCEPT !.job = "running"]
    /\ UNCHANGED <<json_file, legacy_file, raw_pages, pc, cfg, start_at,
                   last_updated, latest_update_seen, total, jql, attempt, log,
                   error, pre_run, last_good, pages_ingested, polite_sleeps,
                   data, sink_before, parked, signalled>>
    /\ UNCHANGED Batch

\* main.py lines 159-197 after fetch_all_projects returned: success is
\* False when success_count is 0 or the transformation failed
MainReturns(outcome) ==
    /\ pc = "returned"
    /\ outcome \in {"ok", "errors"}
    /\ success_count = 0 => outcome = "errors"

\* main.py lines 140-147: setup_directories or load_config raises before
\* the extraction has begun
MainRaises(outcome) == pc = "idle" /\ outcome = "raised"

\* worker.py lines 82-102: main() has returned success or raised an
\* Exception, and job() calls update_status(success, message)
JobEnd(outcome) ==
    /\ worker.job = "running"
    /\ worker.clock < MaxClock
    /\ MainReturns(outcome) \/ MainRaises(outcome)
    /\ worker' = [update_status(Later(worker), outcome = "ok") EXCEPT
                     !.job = "none",
                     !.finished = outcome,
                     !.succeeded_at = IF outcome = "ok"
                                      THEN Some(worker.clock + 1) ELSE @]
    /\ pc' = "idle"
    /\ attempted' = <<>>
    /\ success_count' = 0
    /\ UNCHANGED <<json_file, legacy_file, raw_pages, cfg, start_at,
                   last_updated, latest_update_seen, total, jql, attempt, log,
                   error, pre_run, last_good, pages_ingested, polite_sleeps,
                   data, sink_before, project_key, shelf, parked, signalled>>

WorkerInit == InitOver(AllInputs)

\* the jobs of the worker, one after the other: each is a main() that runs
\* fetch_all_projects
WorkerNext ==
    \/ JobStart
    \/ \E outcome \in {"ok", "errors", "raised"} : JobEnd(outcome)
    \/ worker.job = "running" /\ AllNext

SpecWorker == WorkerInit /\ [][WorkerNext]_vars

---------------------------------------------------------------------------
(* Properties *)

Last(q) == q[Len(q)]

IsServerError(e) == e.kind = "http" /\ 500 <= e.status /\ e.status < 600

\* the parameters of the first request of the run, while no page is ingested
FirstParams == IF log = <<>> THEN Params ELSE log[1].params

AbortedExhausted(s) ==
    /\ pc = "aborted"
    /\ error = Some([type |-> "RuntimeError", project |-> Some(Project),
                     startAt |-> Some(s)])

\* C1: a run that starts from the persisted checkpoint {cursor c, watermark w}
\* issues its first request at offset c and, in incremental mode, filters on
\* the date portion of w (on now - lookback_days when w is null).
C1_Resumability ==
    (pc # "idle" /\ pages_ingested = 0 /\ pre_run.json.kind = "doc") =>
        LET c == pre_run.json.start_at
            w == pre_run.json.last_updated
        IN  /\ FirstParams.startAt = c
            /\ (cfg.incremental /\ w # None) =>
                   FirstParams.jql.since = Some(SubSeq(w[1], 1, 2))
            /\ (cfg.incremental /\ w = None) =>
                   FirstParams.jql.since = Some(FormatDate(Today - cfg.lookback_days))

C1_Witness ==
    /\ pc = "aborted"
    /\ pages_ingested = 0
    /\ pre_run.json.kind = "doc"
    /\ pre_run.json.start_at = 1
    /\ pre_run.json.last_updated = Some(Stamp(2, 0))
    /\ cfg.incremental
    /\ log[1].params.jql.since = Some(FormatDate(2))

\* C2: the persisted watermark is never rolled back and never cleared: after
\* every step it is greater than or equal to the one persisted before.
C2_WatermarkMonotone ==
    [][(json_file.kind = "doc" /\ json_file.last_updated # None) =>
           /\ json_file'.kind = "doc"
           /\ json_file'.last_updated # None
           /\ ~StrLess(json_file'.last_updated[1], json_file.last_updated[1])]_vars

\* C3: when every response of the run is a 500, the run makes max_retries + 1
\* requests, then aborts with the retries-exhausted error naming the project
\* and the offset, and the checkpoint files are those of the start of the run.
C3_RetryExhaustion ==
    (pc # "idle" /\ pages_ingested = 0 /\ log # <<>>
        /\ \A i \in 1..Len(log) : log[i].kind = "http" /\ log[i].status = 500) =>
            /\ Len(log) <= cfg.max_retries + 1
            /\ (pc = "aborted") <=> (Len(log) = cfg.max_retries + 1)
            /\ pc = "aborted" =>
                   /\ AbortedExhausted(log[1].params.startAt)
                   /\ Files = pre_run
                   /\ load_checkpoint(json_file, legacy_file).start_at
                          = log[1].params.startAt

C3_Witness ==
    /\ pc = "aborted"
    /\ pages_ingested = 0
    /\ cfg.max_retries = 2
    /\ Len(log) = 3
    /\ \A i \in 1..Len(log) : log[i].kind = "http" /\ log[i].status = 500
    /\ pre_run.json.kind = "doc"

\* C4: a response whose status is neither 200, 429 nor 5xx ends the run at
\* once: it is the last request of the page, nothing is slept and the attempt
\* counter is not incremented.
C4_FailFast ==
    \A i \in 1..Len(log) :
        (log[i].kind = "http" /\ log[i].status \notin {200, 429}
            /\ ~(500 <= log[i].status /\ log[i].status < 600)) =>
                /\ i = Len(log)
                /\ pc = "aborted"
                /\ log[i].slept = None
                /\ attempt = log[i].attempt

\* C5: an aborted run leaves the checkpoint files and the pages as they were
\* after its last ingested page (as they were before the run if it ingested
\* none), and the step that aborts writes no file.
C5_AbortPreservesProgress ==
    /\ [](pc = "aborted" =>
              /\ Stored = last_good
              /\ pages_ingested = 0 => Files = pre_run)
    /\ [][pc' = "aborted" => UNCHANGED <<json_file, legacy_file, raw_pages>>]_vars

C5_Witness ==
    /\ pc = "aborted"
    /\ pages_ingested = 1
    /\ error # None
    /\ error[1].type = "RuntimeError"
    /\ Files # pre_run
    /\ json_file.kind = "doc"
    /\ json_file.start_at = 1

\* C6: a 200 response with no issues, or an ingestion that leaves the cursor at
\* or past the known total, ends the run in Done, and a run in Done issues no
\* further request.
C6_Termination ==
    /\ []((log # <<>> /\ Last(log).kind = "http" /\ Last(log).status = 200
              /\ Last(log).count = 0) => pc = "done")
    /\ []((pc = "requesting" /\ pages_ingested > 0) =>
              (total = None \/ start_at < total[1]))
    /\ [][pc = "done" =>
              \/ pc' = "done" /\ log' = log
              \/ pc' = "requesting" /\ log' = <<>> /\ pages_ingested' = 0]_vars

C6_Witness ==
    /\ pc = "done"
    /\ pages_ingested = 2
    /\ total = Some(2)
    /\ start_at = 2
    /\ Last(log).count = 1

\* C7, as claimed: every 429 is followed by one sleep of
\* rate_limit_sleep_seconds and then by a retry of the same request.
C7_AlwaysRetried ==
    \A i \in 1..Len(log) :
        (log[i].kind = "http" /\ log[i].status = 429) =>
            /\ log[i].slept = Some(cfg.rate_limit_sleep)
            /\ IF i < Len(log)
               THEN log[i + 1].params = log[i].params
               ELSE pc = "requesting" /\ Params = log[i].params

\* C7, amended: every 429 is followed by one sleep of rate_limit_sleep_seconds
\* whatever the attempt counter, the counter grows by one, and the same
\* request is retried, unless the counter has passed max_retries: the run then
\* aborts with the retries-exhausted error.
C7_RateLimitFixedSleep ==
    \A i \in 1..Len(log) :
        (log[i].kind = "http" /\ log[i].status = 429) =>
            /\ log[i].slept = Some(cfg.rate_limit_sleep)
            /\ IF i < Len(log)
               THEN /\ log[i + 1].params = log[i].params
                    /\ log[i + 1].attempt = log[i].attempt + 1
               ELSE /\ attempt = log[i].attempt + 1
                    /\ \/ /\ pc = "requesting"
                          /\ attempt <= cfg.max_retries
                          /\ Params = log[i].params
                       \/ /\ attempt > cfg.max_retries
                          /\ AbortedExhausted(log[i].params.startAt)

C7_Witness ==
    /\ Len(log) = 3
    /\ log[1].status = 429 /\ log[1].attempt = 0 /\ log[1].slept = Some(30)
    /\ log[2].status = 429 /\ log[2].attempt = 1 /\ log[2].slept = Some(30)
    /\ log[3].status = 200
    /\ log[3].params = log[1].params

\* C8, as claimed: the sleep after a 5xx received at attempt k is
\* backoff_base^k, the counter becomes k + 1 and the same request is retried.
C8_AlwaysRetried ==
    \A i \in 1..Len(log) :
        IsServerError(log[i]) =>
            /\ log[i].slept = Some(Pow(cfg.retry_backoff_base, log[i].attempt))
            /\ IF i < Len(log)
               THEN /\ log[i + 1].params = log[i].params
                    /\ log[i + 1].attempt = log[i].attempt + 1
               ELSE /\ attempt = log[i].attempt + 1
                    /\ pc = "requesting"
                    /\ Params = log[i].params

\* C8, amended: the sleep after a 5xx received at attempt k is backoff_base^k,
\* the counter becomes k + 1 and the same request is retried, unless the
\* counter has passed max_retries: the run then aborts with the
\* retries-exhausted error.  The first request of a page is at attempt 0, so
\* 500, 500, 200 sleeps backoff_base^0 then backoff_base^1 over three requests.
C8_ServerErrorExponential ==
    /\ log # <<>> => log[1].attempt = 0
    /\ \A i \in 1..Len(log) :
           IsServerError(log[i]) =>
               /\ log[i].slept = Some(Pow(cfg.retry_backoff_base, log[i].attempt))
               /\ IF i < Len(log)
                  THEN /\ log[i + 1].params = log[i].params
                       /\ log[i + 1].attempt = log[i].attempt + 1
                  ELSE /\ attempt = log[i].attempt + 1
                       /\ \/ /\ pc = "requesting"
                             /\ attempt <= cfg.max_retries
                             /\ Params = log[i].params
                          \/ /\ attempt > cfg.max_retries
                             /\ AbortedExhausted(log[i].params.startAt)

C8_Witness ==
    /\ pc = "done"
    /\ cfg.retry_backoff_base = 3
    /\ Len(log) = 3
    /\ log[1].status = 500 /\ log[1].slept = Some(1)
    /\ log[2].status = 500 /\ log[2].slept = Some(3)
    /\ log[3].status = 200

\* C9: a save without a watermark (the run has seen no 'updated' value yet)
\* writes the new cursor and keeps the watermark the structured checkpoint
\* held; no save replaces a watermark by null.
C9_SavePreservesWatermark ==
    /\ [][(pages_ingested' = pages_ingested + 1 /\ latest_update_seen' = None) =>
              /\ json_file'.kind = "doc"
              /\ json_file'.start_at = start_at'
              /\ legacy_file' = Some(IntToStr(start_at'))
              /\ json_file.kind = "doc" =>
                     json_file'.last_updated = json_file.last_updated]_vars
    /\ [][(json_file.kind = "doc" /\ json_file.last_updated # None) =>
              (json_file'.kind = "doc" /\ json_file'.last_updated # None)]_vars

C9_Witness ==
    /\ pages_ingested = 1
    /\ latest_update_seen = None
    /\ json_file.kind = "doc"
    /\ json_file.last_updated = Some(Stamp(2, 0))
    /\ json_file.start_at = 2
    /\ pre_run.json.kind = "doc"
    /\ pre_run.json.start_at = 1

\* C10: with neither checkpoint file present, load_checkpoint returns
\* {start_at: 0, last_updated: null} and the files are as they were.
C10_LoadNoCheckpoint ==
    (pc # "idle" /\ pre_run.json = Absent /\ pre_run.legacy = None) =>
        /\ pages_ingested = 0 => (FirstParams.startAt = 0 /\ Files = pre_run)
        /\ last_updated = None
        /\ cfg.incremental =>
               jql.since = Some(FormatDate(Today - cfg.lookback_days))

C10_Witness ==
    /\ pc = "requesting"
    /\ log = <<>>
    /\ pages_ingested = 0
    /\ pre_run.json = Absent
    /\ pre_run.legacy = None
    /\ start_at = 0
    /\ cfg.incremental

\* what the legacy offset record alone says
LegacyOrZero(lf) ==
    IF lf # None /\ lf[1] # <<>> /\ \A i \in 1..Len(lf[1]) : IsDigit(lf[1][i])
    THEN [start_at |-> StrToInt(lf[1]), last_updated |-> None]
    ELSE ZeroCheckpoint

\* a run that has begun and has not yet ingested or lost a page
JustStarted == pc = "requesting" /\ pages_ingested = 0 /\ log = <<>>

\* C11 as stated: whenever the persisted JSON record is unreadable,
\* load_checkpoint returns the zero-value {cursor 0, watermark null}, and a
\* run that starts then starts from it.
C11_CorruptGivesZero ==
    /\ json_file = Corrupt =>
           load_checkpoint(json_file, legacy_file) = ZeroCheckpoint
    /\ (JustStarted /\ pre_run.json = Corrupt) =>
           (start_at = 0 /\ last_updated = None)

\* C11: whenever the persisted JSON record is unreadable, load_checkpoint
\* returns without raising: the offset of the legacy record with a null
\* watermark when the legacy record is a readable integer, the zero-value
\* otherwise; a run that starts then starts from that value.
C11_CorruptFallsBack ==
    /\ json_file = Corrupt =>
           load_checkpoint(json_file, legacy_file) = LegacyOrZero(legacy_file)
    /\ (JustStarted /\ pre_run.json = Corrupt) =>
           /\ start_at = LegacyOrZero(pre_run.legacy).start_at
           /\ last_updated = None

\* a run resumes at the legacy offset behind a JSON record that a killed
\* save_checkpoint left truncated
C11_Witness ==
    /\ JustStarted
    /\ pre_run.json = Corrupt
    /\ pre_run.legacy # None
    /\ start_at > 0
    /\ last_updated = None

\* the checkpoint the killed save_checkpoint was writing
BeingSaved ==
    [start_at |-> start_at,
     last_updated |->
        IF latest_update_seen = None
        THEN load_checkpoint(last_good.json, last_good.legacy).last_updated
        ELSE latest_update_seen]

\* C12: after the process is killed at any place inside save_checkpoint, the
\* next load_checkpoint returns either the complete checkpoint persisted
\* before that save or the complete checkpoint the save was writing, never
\* a partial record or a mix of the two.
C12_SaveAtomic ==
    pc = "crashed" =>
        load_checkpoint(json_file, legacy_file) \in
            {load_checkpoint(last_good.json, last_good.legacy), BeingSaved}

\* the text of a timestamp before its first 'T'
DatePart(t) ==
    LET k == CHOOSE n \in 0..Len(t) :
                 /\ \A j \in 1..n : t[j] # CharT
                 /\ n = Len(t) \/ t[n + 1] = CharT
    IN  SubSeq(t, 1, k)

\* the checkpoint the current run was started from
StartedFrom == load_checkpoint(pre_run.json, pre_run.legacy)

FilterAtStart ==
    BuildJql(cfg.incremental, cfg.lookback_days, StartedFrom.last_updated,
             Today)

\* C14: every request of one run, retries and later pages included, carries
\* the filter computed before the run's first request, whatever the
\* in-memory and the persisted watermark have become since.
C14_FilterStable ==
    pc # "idle" =>
        /\ \A i \in 1..Len(log) : log[i].params.jql = FilterAtStart
        /\ pc = "requesting" => Params.jql = FilterAtStart

\* a retried request for a later page of an incremental run, sent with the
\* filter of day 1 after the persisted watermark has moved to day 2
C14_Witness ==
    /\ pc = "requesting"
    /\ cfg.incremental
    /\ pages_ingested > 0
    /\ log # <<>>
    /\ Last(log).params.startAt > StartedFrom.start_at
    /\ Last(log).params.jql.since = Some(FormatDate(1))
    /\ load_checkpoint(json_file, legacy_file).last_updated = Some(Stamp(2, 0))

\* a step of the fetch loop that hands a page to save_raw_issues
StoresPage == pc = "requesting" /\ start_at' > start_at

\* C15: storing a page under an offset leaves, for that offset, exactly the
\* page just fetched, whatever was stored there before, and changes the
\* page of no other offset; no other step changes a stored page.
C15_PageOverwrite ==
    [][/\ StoresPage =>
             /\ raw_pages'[start_at] = Some(data'[1].issues)
             /\ \A o \in DOMAIN raw_pages :
                    o # start_at => raw_pages'[o] = raw_pages[o]
       /\ ~StoresPage => raw_pages' = raw_pages]_vars

\* an offset that held a page when the run began now holds the different
\* page the run fetched for it
C15_Witness ==
    \E o \in DOMAIN raw_pages :
        /\ sink_before[o] # None
        /\ data # None
        /\ raw_pages[o] = Some(data[1].issues)
        /\ raw_pages[o] # sink_before[o]
        /\ \A q \in DOMAIN raw_pages : q # o => raw_pages[q] = sink_before[q]

\* the 'updated' values the records of a page carry
UpdatedOf(page) ==
    {page[i].updated[1] : i \in {j \in 1..Len(page) : page[j].updated # None}}

\* the largest of a set of strings in Python's order, None for no string
LexMax(U) ==
    IF U = {} THEN None
    ELSE Some(CHOOSE m \in U : \A x \in U : x = m \/ StrLess(x, m))

\* the run has ingested its first page, and data still holds that page
FirstPageIngested ==
    /\ pages_ingested = 1
    /\ data # None
    /\ data[1].issues # <<>>
    /\ pc # "crashed"

\* C16: in a run started from the checkpoint {c, null}, ingesting the first
\* page, of n >= 1 records, stores that page under offset c and persists
\* the checkpoint {c + n, the lexicographic maximum of the records'
\* 'updated' values}, in whatever order the records come.
C16_IngestionEffect ==
    (FirstPageIngested /\ StartedFrom.last_updated = None) =>
        LET page == data[1].issues
            c == StartedFrom.start_at
        IN  /\ raw_pages[c] = Some(page)
            /\ load_checkpoint(json_file, legacy_file) =
                   [start_at |-> c + Len(page),
                    last_updated |-> LexMax(UpdatedOf(page))]

\* a page of two records whose later 'updated' comes first, ingested at
\* offset 0 of a run started from {0, null}
C16_Witness ==
    /\ FirstPageIngested
    /\ StartedFrom = ZeroCheckpoint
    /\ data[1].issues = <<Issue(Some(Stamp(2, 0))), Issue(Some(Stamp(1, 1)))>>
    /\ json_file = Doc(2, Some(Stamp(2, 0)))

\* the cursor a load_checkpoint would return now
PersistedCursor == load_checkpoint(json_file, legacy_file).start_at

\* C17: over any sequence of runs that end done or aborted, with no clean in
\* between, no step lowers the persisted cursor; a step that ingests a page
\* raises it by exactly the number of records of the page, and every other
\* step leaves it as it is.
C17_CursorMonotone ==
    [][/\ PersistedCursor' >= PersistedCursor
       /\ StoresPage => PersistedCursor' = PersistedCursor + Len(data'[1].issues)
       /\ ~StoresPage => PersistedCursor' = PersistedCursor]_vars

\* a second run resumed at cursor 1, ingested one page up to cursor 2 and
\* then aborted
C17_Witness ==
    /\ pc = "aborted"
    /\ StartedFrom.start_at = 1
    /\ pages_ingested = 1
    /\ PersistedCursor = 2

\* q is the beginning of r
IsPrefix(q, r) == Len(q) <= Len(r) /\ \A i \in 1..Len(q) : q[i] = r[i]

\* C18: fetch_all_projects takes the configured projects one by one in the
\* order of the configuration, calls fetch_issues_for_project once for each
\* project it takes, and goes on to the next project (or returns, after the
\* last one) when a call ends, whether the call returned or raised.
C18_SiblingIsolation ==
    /\ [](/\ IsPrefix(attempted, cfg.projects)
          /\ pc # "raised"
          /\ pc = "returned" => attempted = cfg.projects
          /\ pc \in {"calling", "requesting", "done", "aborted"} =>
                 project_key = Last(attempted))
    /\ [][/\ pc = "calling" =>
                (pc' = "requesting" /\ project_key' = project_key)
          /\ pc' = "requesting" => attempted' = attempted
          /\ pc \in {"done", "aborted"} =>
                IF Len(attempted) < Len(cfg.projects)
                THEN /\ pc' = "calling"
                     /\ attempted' =
                           Append(attempted, cfg.projects[Len(attempted) + 1])
                ELSE pc' = "returned" /\ attempted' = attempted]_vars

\* all three projects were attempted although every call raised
C18_Witness ==
    /\ pc = "returned"
    /\ attempted = ProjectList
    /\ success_count = 0
    /\ error # None

\* a request that ended in a timeout, a 429 or a 5xx
IsTransient(e) ==
    \/ e.kind = "timeout"
    \/ e.kind = "http" /\ e.status = 429
    \/ IsServerError(e)

\* a response with a status that is an error and is neither 429 nor 5xx
IsRejected(e) ==
    e.kind = "http" /\ 400 <= e.status /\ e.status < 500 /\ e.status # 429

\* C19 as stated: a run is left only by the fatal-status error, after a
\* rejected response, or by the retries-exhausted error; a timeout, a
\* connection error, a 429 or a 5xx never reaches the caller as an error of
\* its own type.
C19_OnlyRejectedOrExhausted ==
    pc = "aborted" =>
        \/ error = Some(RetriesExhausted(start_at))
        \/ error = Some(Escaped("HTTPError")) /\ IsRejected(Last(log))

\* C19: a run is left by exactly one of three errors: the HTTPError of a
\* rejected response, the underlying exception of a non-timeout transport
\* failure (both only when the request was made with the attempt counter at
\* max_retries or above, and then without a sleep), and otherwise the
\* retries-exhausted RuntimeError; a timeout, a 429 or a 5xx never reaches
\* the caller as an error of its own type.
C19_ErrorContainment ==
    pc = "aborted" =>
        LET e == Last(log)
            spent == e.attempt >= cfg.max_retries /\ e.slept = None
        IN  /\ error = Some(Escaped("HTTPError")) <=> (IsRejected(e) /\ spent)
            /\ error = Some(Escaped("ConnectionError")) <=>
                   (e.kind = "exception" /\ spent)
            /\ ~((IsRejected(e) \/ e.kind = "exception") /\ spent) =>
                   error = Some(RetriesExhausted(start_at))
            /\ IsTransient(e) => error = Some(RetriesExhausted(start_at))

\* after a retried timeout, a connection error leaves the run as itself
C19_Witness ==
    /\ pc = "aborted"
    /\ Len(log) > 1
    /\ log[1].kind = "timeout"
    /\ Last(log).kind = "exception"
    /\ error = Some(Escaped("ConnectionError"))

\* every request of the current page fetch ended in a transport exception
OnlyExceptions == log # <<>> /\ \A i \in 1..Len(log) : log[i].kind = "exception"

\* C20: a non-timeout transport exception met with attempt < max_retries is
\* followed by a sleep of backoff_base^attempt, an increment of attempt and
\* a retry; met with attempt >= max_retries it is re-raised as it is, with
\* no sleep.  A remote that always fails this way receives exactly
\* max_retries + 1 requests.
C20_TransportBudget ==
    /\ \A i \in 1..Len(log) :
          log[i].kind = "exception" =>
              IF log[i].attempt < cfg.max_retries
              THEN /\ log[i].slept =
                         Some(Pow(cfg.retry_backoff_base, log[i].attempt))
                   /\ IF i < Len(log)
                      THEN /\ log[i + 1].attempt = log[i].attempt + 1
                           /\ log[i + 1].params = log[i].params
                      ELSE /\ attempt = log[i].attempt + 1
                           /\ pc = "requesting"
                           /\ Params = log[i].params
              ELSE /\ i = Len(log)
                   /\ log[i].slept = None
                   /\ attempt = log[i].attempt
                   /\ pc = "aborted"
                   /\ error = Some(Escaped("ConnectionError"))
    /\ OnlyExceptions =>
          /\ Len(log) <= cfg.max_retries + 1
          /\ pc = "aborted" <=> Len(log) = cfg.max_retries + 1

\* the remote failed max_retries + 1 times in a row and the last exception
\* was re-raised
C20_Witness ==
    /\ OnlyExceptions
    /\ cfg.max_retries = MaxRetries
    /\ Len(log) = MaxRetries + 1
    /\ pc = "aborted"
    /\ error = Some(Escaped("ConnectionError"))
    /\ Last(log).slept = None

\* C21: once a shutdown signal has reached the process, the run is over:
\* no request is issued after it, no sleep is slept after it and no file is
\* written after it, so the run stops within one delay interval.
C21_Cancellation ==
    /\ [](signalled => pc = "exited")
    /\ [][(signalled /\ signalled') =>
             /\ log' = log
             /\ polite_sleeps' = polite_sleeps
             /\ attempt' = attempt
             /\ Stored' = Stored]_vars

\* the signal came after a page was ingested and a request of the next page
\* was answered 500 and slept on; nothing was requested after it
C21_Witness ==
    /\ signalled
    /\ pc = "exited"
    /\ pages_ingested > 0
    /\ log # <<>>
    /\ IsServerError(Last(log))
    /\ Last(log).slept # None

\* the files of every project, those in view included
Disk == [shelf EXCEPT ![Partition(project_key)] = Stored]

\* a second process is there, and it works on another project / the same one
OtherProject == parked # None /\ parked[1].project_key # project_key

SameProject == parked # None /\ parked[1].project_key = project_key

\* C22: when two runs for two different projects are interleaved step by
\* step, a step of one run leaves the files of the other project as they
\* are, and the files of each project are at every moment the files its own
\* run left after its last ingested page, as when it runs alone.
C22_Independence ==
    /\ [](OtherProject =>
             /\ Stored = last_good
             /\ Disk[parked[1].project_key] = parked[1].last_good)
    /\ [][(OtherProject /\ project_key' = project_key) =>
             /\ parked' = parked
             /\ Disk'[parked[1].project_key] = Disk[parked[1].project_key]]_vars

\* both runs have ingested pages in turn, and each project holds the pages
\* and the cursor of its own run
C22_Witness ==
    /\ OtherProject
    /\ pages_ingested = 2
    /\ parked[1].pages_ingested = 1
    /\ parked[1].pc = "requesting"
    /\ PersistedCursor = 2
    /\ Disk[parked[1].project_key].json = Doc(1, Some(Stamp(1, 1)))

\* C23: when two runs for the same project overlap, no step of either run
\* puts the persisted cursor back to an older, smaller value.
C23_WritesSerialized ==
    [][SameProject => PersistedCursor' >= PersistedCursor]_vars

\* C24: after the process is killed at any step of save_raw_issues, every
\* offset of the sink holds either what it held before the call (a page or
\* nothing) or the complete page that was being stored, never a part of it.
C24_NoTornPage ==
    (pc = "crashed" /\ data # None) =>
        \A o \in DOMAIN raw_pages :
            raw_pages[o] \in {last_good.raw[o], Some(data[1].issues)}

\* a step in which a request was answered by something else than a page
RetryStep ==
    /\ Len(log') = Len(log) + 1
    /\ ~(Last(log').kind = "http" /\ Last(log').status = 200)

\* C25: every ingested page is followed by exactly one sleep of
\* polite_delay, also when the page was fetched after retries and also
\* when it is the last page; the sleeps of the retry branches are other
\* sleeps and never count as the polite one.
C25_PoliteDelay ==
    /\ [](polite_sleeps = pages_ingested)
    /\ [][/\ pages_ingested' = pages_ingested + 1 =>
                /\ polite_sleeps' = polite_sleeps + 1
                /\ pc' = "done" =>
                       Last(log').slept = Some(cfg.polite_delay)
          /\ RetryStep =>
                /\ polite_sleeps' = polite_sleeps
                /\ pages_ingested' = pages_ingested]_vars

\* a page ingested at the third request, after a 429 and a timeout that
\* each had their own sleep
C25_Witness ==
    /\ pc = "done"
    /\ Len(log) = 3
    /\ log[1].status = 429 /\ log[1].slept = Some(cfg.rate_limit_sleep)
    /\ log[2].kind = "timeout" /\ log[2].slept # None
    /\ log[3].status = 200 /\ log[3].slept = Some(cfg.polite_delay)
    /\ polite_sleeps = 1
    /\ pages_ingested = 1

\* checkpoints to save: cursors of one, two and three digits; watermarks
\* that are a timestamp, or hold a quote, a backslash, a comma, the word null
Checkpoints ==
    {<<0, Stamp(1, 0)>>, <<MaxCursor, <<34>>>>, <<50, <<92, 34>>>>,
     <<100, <<49, 44, 50>>>>, <<7, <<110, 117, 108, 108>>>>,
     <<12, <<CharT, 92>>>>}

\* C26: whatever the checkpoint files hold, a load_checkpoint after a
\* completed save_checkpoint(P, c, w) with a watermark w that is not null
\* returns exactly {start_at: c, last_updated: w}; so does the load after
\* the save of every ingested page that carried an 'updated' value.
C26_RoundTrip ==
    /\ \A cw \in Checkpoints :
          LET saved == save_checkpoint(json_file, legacy_file, cw[1],
                                       Some(cw[2]))
          IN  load_checkpoint(saved.json, saved.legacy) =
                  [start_at |-> cw[1], last_updated |-> Some(cw[2])]
    /\ (pc \in {"requesting", "done", "aborted"} /\ pages_ingested > 0
           /\ latest_update_seen # None) =>
          load_checkpoint(json_file, legacy_file) =
              [start_at |-> start_at, last_updated |-> latest_update_seen]

\* a store whose JSON record a killed save had left truncated, beside the
\* legacy offset 1, now returns the cursor and the watermark the run saved
C26_Witness ==
    /\ pre_run.json = Corrupt
    /\ pre_run.legacy = Some(IntToStr(1))
    /\ pc = "requesting"
    /\ pages_ingested = 1
    /\ latest_update_seen = Some(Stamp(2, 0))
    /\ load_checkpoint(json_file, legacy_file) =
           [start_at |-> 2, last_updated |-> Some(Stamp(2, 0))]

\* C27: the first request of every page fetch is made with attempt = 0,
\* whatever the fetches of earlier pages of the run spent: the first
\* backoff of a later page has exponent 0, and a page is given up only by
\* the failure of the request made at attempt = max_retries.
C27_AttemptScope ==
    /\ (pc = "requesting" /\ log = <<>>) => attempt = 0
    /\ log # <<>> =>
          /\ log[1].attempt = 0
          /\ (IsServerError(log[1]) \/ log[1].kind = "timeout") =>
                 log[1].slept = Some(Pow(cfg.retry_backoff_base, 0))
    /\ (pc = "aborted" /\ error = Some(RetriesExhausted(start_at))) =>
          Last(log).attempt = cfg.max_retries

\* the second page of a run, fetched after the first was ingested, starts
\* at attempt 0 and spends its whole budget
C27_Witness ==
    /\ pages_ingested = 1
    /\ cfg.max_retries = MaxRetries
    /\ pc = "aborted"
    /\ Len(log) = MaxRetries + 1
    /\ log[1].attempt = 0
    /\ Last(log).attempt = MaxRetries

\* a checkpoint file that was there is gone
Removed ==
    \/ json_file # Absent /\ json_file' = Absent
    \/ legacy_file # None /\ legacy_file' = None

\* C28: a checkpoint file is removed only by clean_data, which runs between
\* runs and removes both files, after which load_checkpoint returns the
\* zero-value; a run that ended done or aborted left every file it found;
\* and a run that starts with no checkpoint file starts at offset 0.
C28_Lifecycle ==
    /\ [][Removed =>
              /\ pc \in {"idle", "done", "aborted", "crashed"}
              /\ pc' = "idle"
              /\ json_file' = Absent
              /\ legacy_file' = None
              /\ load_checkpoint(json_file', legacy_file') = ZeroCheckpoint]_vars
    /\ [](pc \in {"done", "aborted"} =>
              /\ pre_run.json # Absent => json_file # Absent
              /\ pre_run.legacy # None => legacy_file # None)
    /\ []((JustStarted /\ pre_run = [json |-> Absent, legacy |-> None]) =>
              /\ start_at = 0
              /\ last_updated = None)

\* the page at offset 1 was stored by a run that had persisted cursor 1;
\* the checkpoint was then cleaned and the next run starts at offset 0
C28_Witness ==
    /\ JustStarted
    /\ raw_pages[1] # None
    /\ pre_run = [json |-> Absent, legacy |-> None]
    /\ start_at = 0

\* C29: whatever the responses are, every request of a page fetch but its
\* last is followed by a sleep and made the attempt counter one greater for
\* the next request, so a page fetch makes at most max_retries + 1 requests.
C29_BoundedRetries ==
    /\ \A i \in 1..(Len(log) - 1) :
          /\ log[i].slept # None
          /\ log[i + 1].attempt = log[i].attempt + 1
    /\ Len(log) <= cfg.max_retries + 1

\* C30: against a finite remote with a stable total every run reaches done or
\* aborted whatever the request outcomes are: each outcome of a request ends
\* the run, moves the cursor towards the end of the collection or spends one
\* of the page's max_retries + 1 attempts, so no run can request for ever.
C30_RunTerminates ==
    [][pc = "requesting" =>
           \/ pc' \in {"done", "aborted"}
           \/ start_at' > start_at
           \/ attempt' > attempt /\ attempt' <= cfg.max_retries]_vars

\* C31: pagination is strictly sequential: while a run is requesting, every
\* request of the page fetch is for the run's cursor, and once a page was
\* ingested the cursor is c + n only with the n records fetched at c stored
\* in the sink under c and the checkpoint holding c + n; no step issues more
\* than one request.
C31_Sequential ==
    /\ [](pc = "requesting" =>
              /\ \A i \in 1..Len(log) : log[i].params.startAt = start_at
              /\ pages_ingested > 0 =>
                    /\ data # None
                    /\ data[1].issues # <<>>
                    /\ raw_pages[start_at - Len(data[1].issues)] =
                           Some(data[1].issues)
                    /\ PersistedCursor = start_at
                    /\ legacy_file = Some(IntToStr(start_at)))
    /\ [][Len(log') <= Len(log) + 1]_vars

\* the request for offset 1 is out after the page of offset 0 was stored
\* and cursor 1 persisted
C31_Witness ==
    /\ pc = "requesting"
    /\ pages_ingested = 1
    /\ log # <<>>
    /\ log[1].params.startAt = 1
    /\ raw_pages[0] # None
    /\ PersistedCursor = 1

\* a page that save_raw_issues wrote to its end ends at the offset c
PageEndsAt(c) ==
    \E o \in DOMAIN raw_pages :
        /\ raw_pages[o] # None
        /\ raw_pages[o] # TornPage
        /\ o + Len(raw_pages[o][1]) = c

\* C32: in every state, those left by a kill between two steps of an
\* ingestion or inside save_checkpoint included, a persisted cursor above 0
\* is the end of a page that is whole in the sink: the cursor never points
\* past a page that is missing.
C32_PageBeforeCheckpoint ==
    PersistedCursor > 0 => PageEndsAt(PersistedCursor)

\* the process was killed after the second page was stored under offset 1
\* and before the cursor was moved past it: the next run stores it again
C32_Witness ==
    /\ pc = "crashed"
    /\ pages_ingested = 1
    /\ start_at = 2
    /\ raw_pages[1] # None
    /\ PersistedCursor = 1

\* every request of the page fetch met a 429, a 5xx or a timeout
OnlyTransient == log # <<>> /\ \A i \in 1..Len(log) : IsTransient(log[i])

\* C33: 429, 5xx and timeout outcomes count on one attempt counter: in any
\* mixture of them the i-th request of the page is made at attempt i - 1, and
\* the run is aborted exactly when max_retries + 1 requests were made, with
\* the retries-exhausted error that names the collection and the offset.
C33_SharedBudget ==
    OnlyTransient =>
        /\ \A i \in 1..Len(log) : log[i].attempt = i - 1
        /\ Len(log) <= cfg.max_retries + 1
        /\ (pc = "aborted") <=> (Len(log) = cfg.max_retries + 1)
        /\ pc # "aborted" => pc = "requesting" /\ attempt = Len(log)
        /\ pc = "aborted" =>
              /\ error = Some(RetriesExhausted(start_at))
              /\ error[1].project = Some(Project)
              /\ error[1].startAt = Some(Last(log).params.startAt)

\* a 429, a 500 and a timeout in a row spend a budget of three requests
C33_Witness ==
    /\ pc = "aborted"
    /\ cfg.max_retries = 2
    /\ Len(log) = 3
    /\ log[1].kind = "http" /\ log[1].status = 429
    /\ log[2].kind = "http" /\ log[2].status = 500
    /\ log[3].kind = "timeout"
    /\ error = Some(RetriesExhausted(start_at))

\* legacy offset files: none, " 1\n" and "x"
LegacyTexts == {None, Some(<<32, 49, 10>>), Some(<<120>>)}

\* JSON checkpoint files: unreadable, and a document
JsonFiles == {Corrupt, Doc(2, Some(Stamp(1, 0)))}

\* the legacy file holds an offset
LegacyReadable(lf) == lf # None /\ IsIntStr(Strip(lf[1]))

\* C34: load_checkpoint returns the content of a readable JSON checkpoint
\* whatever the legacy file holds; when the JSON checkpoint is absent or
\* unreadable it returns the legacy offset with a null watermark (the
\* zero-value when there is no legacy offset to read); and a run starts from
\* what load_checkpoint so returns for the files it finds.
C34_LegacyFallback ==
    /\ \A jf \in JsonFiles \cup {json_file}, lf \in LegacyTexts \cup {legacy_file} :
          LET got == load_checkpoint(jf, lf)
          IN  /\ jf.kind = "doc" =>
                    got = [start_at |-> jf.start_at,
                           last_updated |-> jf.last_updated]
              /\ (jf.kind # "doc" /\ LegacyReadable(lf)) =>
                    got = [start_at |-> StrToInt(Strip(lf[1])),
                           last_updated |-> None]
              /\ (jf.kind # "doc" /\ ~LegacyReadable(lf)) => got = ZeroCheckpoint
    /\ JustStarted =>
          /\ pre_run.json.kind = "doc" =>
                /\ start_at = pre_run.json.start_at
                /\ last_updated = pre_run.json.last_updated
          /\ (pre_run.json.kind # "doc" /\ LegacyReadable(pre_run.legacy)) =>
                /\ start_at = StrToInt(Strip(pre_run.legacy[1]))
                /\ last_updated = None

\* a run that found a readable JSON checkpoint with cursor 2 beside a legacy
\* file still holding 1 starts at 2, with the watermark of the JSON record
C34_Witness ==
    /\ JustStarted
    /\ pre_run.json.kind = "doc"
    /\ pre_run.json.start_at = 2
    /\ pre_run.legacy = Some(IntToStr(1))
    /\ start_at = 2
    /\ last_updated # None

\* cursors of one, two and three digits
Cursors == {0, 7, 50, 120}

\* the cursor read from the JSON record alone, and from the legacy record alone
CursorOfJson(jf) == load_checkpoint(jf, None).start_at

CursorOfLegacy(lf) == load_checkpoint(Absent, lf).start_at

\* C35: after a completed save_checkpoint(P, c, w) the JSON record and the
\* legacy offset record both hold c, whatever the files held before and
\* whether w is given or not, so load_checkpoint returns the cursor c from
\* either record; so it is after every page a run has ingested.
C35_DualFormat ==
    /\ \A c \in Cursors, w \in {None, latest_update_seen} :
          LET saved == save_checkpoint(json_file, legacy_file, c, w)
          IN  /\ saved.json.kind = "doc"
              /\ saved.legacy # None
              /\ CursorOfJson(saved.json) = c
              /\ CursorOfLegacy(saved.legacy) = c
              /\ load_checkpoint(saved.json, saved.legacy).start_at = c
    /\ (pc \in {"requesting", "done", "aborted"} /\ pages_ingested > 0) =>
          /\ CursorOfJson(json_file) = start_at
          /\ CursorOfLegacy(legacy_file) = start_at

\* two pages were ingested: both records hold cursor 2
C35_Witness ==
    /\ pc = "requesting"
    /\ pages_ingested = 2
    /\ json_file.kind = "doc"
    /\ json_file.start_at = 2
    /\ legacy_file = Some(IntToStr(2))

\* the step answers a request with a 200 whose record sequence is empty
EmptyResponse ==
    /\ pc = "requesting"
    /\ Len(log') = Len(log) + 1
    /\ Last(log').kind = "http"
    /\ Last(log').status = 200
    /\ data' # None
    /\ data'[1].issues = <<>>

\* C36: a 200 response with no records ends the run done and has no other
\* effect: no page is written, the checkpoint files, the cursor and the
\* watermark are as before, and no polite delay is slept.
C36_EmptyPageNoEffect ==
    /\ [][EmptyResponse =>
              /\ pc' = "done"
              /\ error' = None
              /\ raw_pages' = raw_pages
              /\ json_file' = json_file
              /\ legacy_file' = legacy_file
              /\ start_at' = start_at
              /\ latest_update_seen' = latest_update_seen
              /\ polite_sleeps' = polite_sleeps
              /\ Last(log').slept = None]_vars
    /\ []((log # <<>> /\ Last(log).kind = "http" /\ Last(log).status = 200
              /\ Last(log).count = 0) => pc = "done")

\* the run ingested one page and ended on the empty page after it: cursor 1
\* persisted, nothing under offset 1, one polite delay
C36_Witness ==
    /\ pc = "done"
    /\ data # None
    /\ data[1].issues = <<>>
    /\ pages_ingested = 1
    /\ polite_sleeps = 1
    /\ start_at = 1
    /\ PersistedCursor = 1
    /\ raw_pages[1] = None

\* the watermark a run that starts now would load
PersistedWatermark == load_checkpoint(json_file, legacy_file).last_updated

\* C37: the run that follows a run ended done starts at the persisted
\* cursor, which is the cursor the ended run had reached, and issues its
\* first request there; in incremental mode its filter is built anew from
\* the persisted watermark, and the cursor is kept all the same.
C37_CursorKept ==
    /\ [][(pc = "done" /\ pc' = "requesting") =>
              /\ start_at' = PersistedCursor
              /\ start_at' = start_at
              /\ log' = <<>>
              /\ (cfg'.incremental /\ Truthy(PersistedWatermark)) =>
                    jql'.since = Some(DatePart(PersistedWatermark[1]))]_vars
    /\ []((pc \in {"requesting", "done", "aborted"} /\ pages_ingested = 0
              /\ log # <<>>) =>
              /\ log[1].params.startAt = StartedFrom.start_at
              /\ log[1].params.jql = jql)

\* an incremental run resumed at cursor 1 with the filter of the watermark
\* 01T1, which is not the lookback filter the page of offset 0 was counted
\* under
C37_Witness ==
    /\ pc = "aborted"
    /\ pages_ingested = 0
    /\ cfg.incremental
    /\ sink_before[0] # None
    /\ pre_run.json = Doc(1, Some(Stamp(1, 1)))
    /\ log # <<>>
    /\ log[1].params.startAt = 1
    /\ log[1].params.jql.since = Some(FormatDate(1))
    /\ FormatDate(1) # FormatDate(Today - lookback_days)

\* the pages of the sink tile the offsets from c up to n, each page holding
\* the records of the remote at its offsets
RECURSIVE Tiled(_, _)
Tiled(c, n) ==
    \/ c = n
    \/ /\ c < n
       /\ raw_pages[c] # None
       /\ raw_pages[c][1] # <<>>
       /\ c + Len(raw_pages[c][1]) <= n
       /\ raw_pages[c][1] = SubSeq(Remote, c + 1, c + Len(raw_pages[c][1]))
       /\ Tiled(c + Len(raw_pages[c][1]), n)

\* C38: in non-incremental mode against a fixed collection of N records,
\* after any runs that aborted anywhere, the pages in the sink tile the
\* offsets from 0 to the persisted cursor, and a run that ends done has
\* brought the cursor to N: the stored pages tile [0, N) with no gap.
C38_Coverage ==
    /\ PersistedCursor <= Len(Remote)
    /\ Tiled(0, PersistedCursor)
    /\ pc = "done" =>
          /\ PersistedCursor = Len(Remote)
          /\ Tiled(0, Len(Remote))

\* a first run stored the page of offset 0 and aborted; the run resumed at
\* offset 1 stored the rest and ended done
C38_Witness ==
    /\ pc = "done"
    /\ StartedFrom.start_at = 1
    /\ sink_before[0] # None
    /\ sink_before[1] = None
    /\ raw_pages[1] # None
    /\ Tiled(0, Len(Remote))

\* a call of fetch_issues_for_project has ended and the loop goes on
CallEnded == pc \in {"done", "aborted"} /\ pc' \in {"calling", "returned"}

\* C39: fetch_all_projects counts the calls that returned: success_count is
\* 0 before the first call, goes up by one after a call that returned and
\* stays after a call that raised, and no other step changes it; the
\* function returns it after one call per configured project, so the number
\* of failed projects is the number configured minus the value returned; an
\* Exception raised by a call never leaves the function.
C39_FailureCount ==
    /\ [](/\ pc # "raised"
          /\ success_count >= 0
          /\ success_count <= Len(attempted)
          /\ (pc \in {"idle", "calling"} /\ Len(attempted) <= 1) =>
                success_count = 0
          /\ pc = "returned" =>
                /\ Len(attempted) = Len(cfg.projects)
                /\ Len(cfg.projects) - success_count \in 0..Len(cfg.projects))
    /\ [][/\ CallEnded =>
                success_count' = success_count + (IF pc = "done" THEN 1 ELSE 0)
          /\ ~CallEnded => success_count' = success_count]_vars

\* of the three configured projects the first two were extracted and the
\* last one failed: 2 is returned
C39_Witness ==
    /\ pc = "returned"
    /\ attempted = ProjectList
    /\ success_count = 2
    /\ error # None

\* a job has just completed successfully
JobSucceeds ==
    worker.job = "running" /\ worker'.job = "none" /\ worker'.finished = "ok"

\* C40: last_successful_run of the worker's status record changes only in
\* the step in which a job completes successfully; after a job that
\* completed with errors or raised, the status is 'error' and
\* last_successful_run is not later than the completion of the most recent
\* successful job (it is null when no job has succeeded).
C40_HealthStatus ==
    /\ [][worker'.last_successful_run # worker.last_successful_run =>
              JobSucceeds]_vars
    /\ []((worker.job = "none" /\ worker.finished \in {"errors", "raised"}) =>
              /\ worker.status = "error"
              /\ IF worker.succeeded_at = None
                 THEN worker.last_successful_run = None
                 ELSE /\ worker.last_successful_run # None
                      /\ worker.last_successful_run[1] <= worker.succeeded_at[1])

====
